---- MODULE Spec2Model ----
(***************************************************************************)
(* StatMaster: the timesheet parser (parse_pdf_to_dataframe), the monthly  *)
(* aggregator (compute_monthly_stats) and the two report composers         *)
(* (analyze_pdf, analyze_two_pdfs_comparison) of statmaster_logic.py, and   *)
(* the request handlers (index, compare) of app.py that call them.         *)
(*                                                                         *)
(* Conventions of the model:                                               *)
(*  - a date is the tuple <<year, month, day>>, None is the empty tuple;   *)
(*  - a datetime is a record [date, hour, minute];                         *)
(*  - a decimal number of hours (a Python float) is an exact rational      *)
(*    [num, den] in lowest terms with den > 0;                             *)
(*  - a string is a sequence of characters, a character is a one-letter    *)
(*    string, a non-ASCII character is written by its code point           *)
(*    ("U+00E9" is the letter e with acute accent);                        *)
(*  - a line of extracted text is a sequence of tokens: what date_re and   *)
(*    time_re can match in it, in the order they stand in the line.        *)
(***************************************************************************)
EXTENDS Integers, Sequences, FiniteSets, TLC

VARIABLES
    mode,           \* "single" (analyze_pdf) or "compare" (analyze_two_pdfs_comparison)
    pdf,            \* pdf[k]: the lines of the text extracted from the k-th PDF
    employee_name,  \* employee_name[k]: the name given for the k-th employee
    weekly_hours,   \* weekly_hours[k]: the contracted weekly hours of the k-th employee
    pc,             \* where the analysis stands
    cur,            \* the PDF being parsed or aggregated (1 or 2)
    idx,            \* parse loop: index of the next line of pdf[cur]
    current_date,   \* parse loop: the date cursor
    records,        \* parse loop: the intervals collected so far
    df,             \* df[k]: the DataFrame parse_pdf_to_dataframe returned for PDF k
    summary,        \* summary[k]: the summary dict of employee k
    monthly_df,     \* monthly_df[k]: the monthly table of employee k
    reports,        \* the report folder: file name -> content written
    result,         \* the value the analysis returned
    error,          \* the exception the analysis raised
    uploads,        \* the upload folder: file name -> content saved
    handler         \* handler[r]: the request r being served and its local variables

\* the variables of one analysis, and those of the server around it
analysis == <<mode, pdf, employee_name, weekly_hours, pc, cur, idx, current_date,
              records, df, summary, monthly_df, result, error>>
server == <<uploads, handler>>

vars == <<mode, pdf, employee_name, weekly_hours, pc, cur, idx, current_date,
          records, df, summary, monthly_df, reports, result, error, uploads, handler>>

None == <<>>

(***************************************************************************)
(* Bounds of the model.                                                    *)
(***************************************************************************)
MaxLines == 3       \* lines of a free-form text
MaxBlocks == 2      \* day blocks of a well-formed text
MaxNameLen == 2     \* characters of an employee name

(***************************************************************************)
(* Rational arithmetic (the floats of the source, kept exact).             *)
(***************************************************************************)
Abs(n) == IF n < 0 THEN -n ELSE n

RECURSIVE GCD(_, _)
GCD(a, b) == IF b = 0 THEN a ELSE GCD(b, a % b)

Rat(n, d) ==
    LET g == GCD(Abs(n), Abs(d))
        s == IF d < 0 THEN -1 ELSE 1
    IN  [num |-> (s * n) \div g, den |-> (s * d) \div g]

Zero == Rat(0, 1)
RatAdd(a, b) == Rat(a.num * b.den + b.num * a.den, a.den * b.den)
RatSub(a, b) == Rat(a.num * b.den - b.num * a.den, a.den * b.den)
RatMul(a, b) == Rat(a.num * b.num, a.den * b.den)
RatDiv(a, b) == Rat(a.num * b.den, a.den * b.num)

(***************************************************************************)
(* The Gregorian calendar of the datetime and calendar modules.            *)
(***************************************************************************)
IsLeap(year) == year % 4 = 0 /\ (year % 100 # 0 \/ year % 400 = 0)

\* DaysInMonth without the leap years
DaysInMonth_NoLeap(year, month) ==
    IF month = 2 THEN 28
    ELSE IF month \in {4, 6, 9, 11} THEN 30 ELSE 31

DaysInMonth(year, month) ==
    IF month = 2 THEN (IF IsLeap(year) THEN 29 ELSE 28)
    ELSE IF month \in {4, 6, 9, 11} THEN 30 ELSE 31

RECURSIVE DaysBeforeMonth(_, _)
DaysBeforeMonth(year, month) ==
    IF month <= 1 THEN 0
    ELSE DaysBeforeMonth(year, month - 1) + DaysInMonth(year, month - 1)

DaysBeforeYear(year) ==
    LET y == year - 1 IN y * 365 + (y \div 4) - (y \div 100) + (y \div 400)

\* date.toordinal()
Ordinal(date) == DaysBeforeYear(date[1]) + DaysBeforeMonth(date[1], date[2]) + date[3]

DateLess(a, b) == Ordinal(a) < Ordinal(b)

\* date + timedelta(days=1)
NextDay(date) ==
    IF date[3] < DaysInMonth(date[1], date[2]) THEN <<date[1], date[2], date[3] + 1>>
    ELSE IF date[2] < 12 THEN <<date[1], date[2] + 1, 1>>
    ELSE <<date[1] + 1, 1, 1>>

\* datetime.combine(date, time(h, m))
Combine(date, h, m) == [date |-> date, hour |-> h, minute |-> m]

DatetimeLess(a, b) ==
    \/ DateLess(a.date, b.date)
    \/ a.date = b.date /\ a.hour * 60 + a.minute < b.hour * 60 + b.minute

\* dt + timedelta(days=1)
PlusOneDay(dt) == [dt EXCEPT !.date = NextDay(dt.date)]

\* (a - b).total_seconds()
TotalSeconds(a, b) ==
    (Ordinal(a.date) - Ordinal(b.date)) * 86400
        + ((a.hour * 60 + a.minute) - (b.hour * 60 + b.minute)) * 60

(***************************************************************************)
(* Tokens and lines.                                                       *)
(***************************************************************************)
DateTok(d, m, y) == [kind |-> "date", d |-> d, m |-> m, y |-> y]
TimeTok(sh, sm, eh, em) == [kind |-> "time", sh |-> sh, sm |-> sm, eh |-> eh, em |-> em]
Word == [kind |-> "word"]

RECURSIVE FirstOfKind(_, _)
FirstOfKind(line, kind) ==
    IF line = <<>> THEN None
    ELSE IF Head(line).kind = kind THEN Head(line)
    ELSE FirstOfKind(Tail(line), kind)

\* date_re.search(line): the first date token of the line, or None
DateSearch(line) == FirstOfKind(line, "date")

\* time_re.search(line): the first time-pair token of the line, or None
TimeSearch(line) == FirstOfKind(line, "time")

\* datetime.strptime(tok, "%d/%m/%Y") succeeds
StrptimeOk(tok) ==
    /\ tok.y >= 1
    /\ tok.m >= 1 /\ tok.m <= 12
    /\ tok.d >= 1 /\ tok.d <= DaysInMonth(tok.y, tok.m)

\* datetime.strptime(tok, "%d/%m/%Y").date(), None standing for the ValueError
Strptime(tok) == IF StrptimeOk(tok) THEN <<tok.y, tok.m, tok.d>> ELSE None

\* the check on impossible values
TimeOk(mt) ==
    /\ 0 <= mt.sh /\ mt.sh < 24 /\ 0 <= mt.eh /\ mt.eh < 24
    /\ 0 <= mt.sm /\ mt.sm < 60 /\ 0 <= mt.em /\ mt.em < 60

\* MakeRecord without the step over midnight
MakeRecord_NoRollover(date, mt) ==
    LET start_dt == Combine(date, mt.sh, mt.sm)
        end_dt == Combine(date, mt.eh, mt.em)
    IN  [date |-> date, start |-> start_dt, end |-> end_dt,
         hours |-> Rat(TotalSeconds(end_dt, start_dt), 3600)]

\* MakeRecord with the step over midnight taken also when end = start
MakeRecord_RollsOnEqual(date, mt) ==
    LET start_dt == Combine(date, mt.sh, mt.sm)
        end_0 == Combine(date, mt.eh, mt.em)
        end_dt == IF ~DatetimeLess(start_dt, end_0) THEN PlusOneDay(end_0) ELSE end_0
    IN  [date |-> date, start |-> start_dt, end |-> end_dt,
         hours |-> Rat(TotalSeconds(end_dt, start_dt), 3600)]

\* the interval a time-pair gives on a date
MakeRecord(date, mt) ==
    LET start_dt == Combine(date, mt.sh, mt.sm)
        end_0 == Combine(date, mt.eh, mt.em)
        end_dt == IF DatetimeLess(end_0, start_dt) THEN PlusOneDay(end_0) ELSE end_0
    IN  [date |-> date, start |-> start_dt, end |-> end_dt,
         hours |-> Rat(TotalSeconds(end_dt, start_dt), 3600)]

\* DateAfter with the cursor kept when the date token is not a real date
DateAfter_KeepsCursor(line, date) ==
    IF DateSearch(line) # None /\ StrptimeOk(DateSearch(line))
    THEN Strptime(DateSearch(line))
    ELSE date

\* the date cursor after one pass of the loop body
DateAfter(line, date) ==
    IF DateSearch(line) # None THEN Strptime(DateSearch(line)) ELSE date

\* RecordsAfter with the time-pair read before the date is looked for
RecordsAfter_TimeFirst(line, date, recs) ==
    IF date # None /\ TimeSearch(line) # None /\ TimeOk(TimeSearch(line))
    THEN Append(recs, MakeRecord(date, TimeSearch(line)))
    ELSE recs

\* RecordsAfter without the check on impossible values
RecordsAfter_NoRangeCheck(line, date, recs) ==
    IF DateSearch(line) # None THEN recs
    ELSE IF date = None THEN recs
    ELSE IF TimeSearch(line) = None THEN recs
    ELSE Append(recs, MakeRecord(date, TimeSearch(line)))

\* the records after one pass of the loop body
RecordsAfter(line, date, recs) ==
    IF DateSearch(line) # None THEN recs
    ELSE IF date = None THEN recs
    ELSE IF TimeSearch(line) = None THEN recs
    ELSE IF ~TimeOk(TimeSearch(line)) THEN recs
    ELSE Append(recs, MakeRecord(date, TimeSearch(line)))

(***************************************************************************)
(* Strings: formatting of numbers, dates and month labels.                 *)
(***************************************************************************)
DigitChar(d) == <<"0", "1", "2", "3", "4", "5", "6", "7", "8", "9">>[d + 1]

\* str(n) for n >= 0
RECURSIVE Digits(_)
Digits(n) == IF n < 10 THEN <<DigitChar(n)>> ELSE Digits(n \div 10) \o <<DigitChar(n % 10)>>

\* f"{n:02d}" for n >= 0
TwoDigits(n) == IF n < 10 THEN <<"0">> \o Digits(n) ELSE Digits(n)

\* f"{n:04d}" for n >= 0
FourDigits(n) ==
    IF n < 10 THEN <<"0", "0", "0">> \o Digits(n)
    ELSE IF n < 100 THEN <<"0", "0">> \o Digits(n)
    ELSE IF n < 1000 THEN <<"0">> \o Digits(n)
    ELSE Digits(n)

\* f"{month:02d}/{year}"
MonthLabel(year, month) == TwoDigits(month) \o <<"/">> \o Digits(year)

\* date.strftime('%d/%m/%Y')
Strftime(date) ==
    TwoDigits(date[3]) \o <<"/">> \o TwoDigits(date[2]) \o <<"/">> \o FourDigits(date[1])

\* ord(c) for the characters of a month label
LabelCode(c) ==
    IF c = "/" THEN 47
    ELSE 48 + (CHOOSE d \in 0..9 : DigitChar(d) = c)

\* a < b for two strings of label characters (Python's str comparison)
RECURSIVE StrLess(_, _)
StrLess(a, b) ==
    IF b = <<>> THEN FALSE
    ELSE IF a = <<>> THEN TRUE
    ELSE IF Head(a) # Head(b) THEN LabelCode(Head(a)) < LabelCode(Head(b))
    ELSE StrLess(Tail(a), Tail(b))

(***************************************************************************)
(* compute_monthly_stats.                                                  *)
(***************************************************************************)
RECURSIVE SortedDates(_)
SortedDates(S) ==
    IF S = {} THEN <<>>
    ELSE LET m == CHOOSE x \in S : \A y \in S : ~DateLess(y, x)
         IN  <<m>> \o SortedDates(S \ {m})

\* HoursOn that keeps the first interval of the date instead of the sum
HoursOn_First(frame, date) ==
    LET i == CHOOSE i \in DOMAIN frame :
                frame[i].date = date /\ \A j \in 1..(i - 1) : frame[j].date # date
    IN  frame[i].hours

\* df[df.date == date]["hours"].sum()
RECURSIVE HoursOn(_, _)
HoursOn(frame, date) ==
    IF frame = <<>> THEN Zero
    ELSE IF Head(frame).date = date THEN RatAdd(Head(frame).hours, HoursOn(Tail(frame), date))
    ELSE HoursOn(Tail(frame), date)

\* df.groupby("date")["hours"].sum().reset_index(), with the year and month columns
Daily(frame) ==
    LET dates == SortedDates({frame[i].date : i \in DOMAIN frame})
    IN  [i \in DOMAIN dates |->
            [date |-> dates[i], hours |-> HoursOn(frame, dates[i]),
             year |-> dates[i][1], month |-> dates[i][2]]]

\* KeyLess with the month compared before the year
KeyLess_MonthFirst(a, b) == a[2] < b[2] \/ (a[2] = b[2] /\ a[1] < b[1])

\* the order of the (year, month) keys
KeyLess(a, b) == a[1] < b[1] \/ (a[1] = b[1] /\ a[2] < b[2])

\* the keys of daily.groupby(["year", "month"]), in the order groupby yields them
RECURSIVE SortedKeys(_)
SortedKeys(S) ==
    IF S = {} THEN <<>>
    ELSE LET m == CHOOSE x \in S : \A y \in S : ~KeyLess(y, x)
         IN  <<m>> \o SortedKeys(S \ {m})

GroupKeys(daily) == SortedKeys({<<daily[i].year, daily[i].month>> : i \in DOMAIN daily})

\* the rows of daily that belong to the group of a key
Group(daily, key) == SelectSeq(daily, LAMBDA r : <<r.year, r.month>> = key)

\* column.sum() of a column of rational numbers
RECURSIVE SumField(_, _)
SumField(rows, f) ==
    IF rows = <<>> THEN Zero ELSE RatAdd(Head(rows)[f], SumField(Tail(rows), f))

\* one pass of the loop over the groups: the row of a month
MonthRow(key, group, weekly) ==
    LET hours_worked == SumField(group, "hours")
        days_worked == Cardinality({group[i].date : i \in DOMAIN group})
        days_in_month == DaysInMonth(key[1], key[2])
        theoretical_hours == RatMul(weekly, Rat(days_in_month, 7))
    IN  [year |-> key[1],
         month |-> key[2],
         month_label |-> MonthLabel(key[1], key[2]),
         days_worked |-> days_worked,
         hours_worked |-> hours_worked,
         theoretical_hours |-> theoretical_hours,
         overtime |-> RatSub(hours_worked, theoretical_hours),
         avg_hours_per_day |->
            IF days_worked > 0 THEN RatDiv(hours_worked, Rat(days_worked, 1)) ELSE Zero,
         days_in_month |-> days_in_month]

\* monthly_rows, in the order they are appended
MonthlyRows(daily, weekly) ==
    LET keys == GroupKeys(daily)
    IN  [i \in DOMAIN keys |-> MonthRow(keys[i], Group(daily, keys[i]), weekly)]

\* a row put in its place in a sorted table (after the rows that are not greater)
RECURSIVE InsertRow(_, _)
InsertRow(row, rows) ==
    IF rows = <<>> THEN <<row>>
    ELSE IF KeyLess(<<row.year, row.month>>, <<Head(rows).year, Head(rows).month>>)
         THEN <<row>> \o rows
    ELSE <<Head(rows)>> \o InsertRow(row, Tail(rows))

\* DataFrame.sort_values(["year", "month"]).reset_index(drop=True)
RECURSIVE SortValues(_)
SortValues(rows) ==
    IF rows = <<>> THEN <<>>
    ELSE InsertRow(rows[Len(rows)], SortValues(SubSeq(rows, 1, Len(rows) - 1)))

MonthlyTable(frame, weekly) == SortValues(MonthlyRows(Daily(frame), weekly))

Summary(frame, weekly) ==
    LET daily == Daily(frame)
        monthly == MonthlyTable(frame, weekly)
        total_hours_worked == SumField(monthly, "hours_worked")
        total_theoretical_hours == SumField(monthly, "theoretical_hours")
        period_start == daily[1].date
        period_end == daily[Len(daily)].date
    IN  [period_start |-> period_start,
         period_end |-> period_end,
         period_label |-> Strftime(period_start) \o <<" ", "-", " ">> \o Strftime(period_end),
         total_hours_worked |-> total_hours_worked,
         total_theoretical_hours |-> total_theoretical_hours,
         total_overtime |-> RatSub(total_hours_worked, total_theoretical_hours),
         avg_monthly_hours |->
            IF Len(monthly) > 0 THEN RatDiv(total_hours_worked, Rat(Len(monthly), 1)) ELSE Zero,
         monthly_count |-> Len(monthly)]

(***************************************************************************)
(* Names and file names.                                                   *)
(***************************************************************************)
\* the characters a name is made of in the model
NameChars == {"a", "7", "_", "-", " ", "/", ".", "'", "U+00E9"}

\* c.isspace()
IsSpace(c) == c = " "

AsciiLetters ==
    {"a", "b", "c", "d", "e", "f", "g", "h", "i", "j", "k", "l", "m",
     "n", "o", "p", "q", "r", "s", "t", "u", "v", "w", "x", "y", "z",
     "A", "B", "C", "D", "E", "F", "G", "H", "I", "J", "K", "L", "M",
     "N", "O", "P", "Q", "R", "S", "T", "U", "V", "W", "X", "Y", "Z"}

AsciiDigits == {DigitChar(d) : d \in 0..9}

\* the letters and digits of other scripts
OtherAlnum == {"U+00E9"}

\* c is matched by [a-zA-Z0-9]
IsAsciiAlnum(c) == c \in AsciiLetters \cup AsciiDigits

\* c.isalnum()
IsAlnum(c) == c \in AsciiLetters \cup AsciiDigits \cup OtherAlnum

RECURSIVE LStrip(_)
LStrip(s) == IF s # <<>> /\ IsSpace(Head(s)) THEN LStrip(Tail(s)) ELSE s

RECURSIVE RStrip(_)
RStrip(s) ==
    IF s # <<>> /\ IsSpace(s[Len(s)]) THEN RStrip(SubSeq(s, 1, Len(s) - 1)) ELSE s

\* str.strip()
Strip(s) == RStrip(LStrip(s))

\* c is matched by [^a-zA-Z0-9_-]
IsUnsafe(c) == ~(IsAsciiAlnum(c) \/ c \in {"_", "-"})

\* re.sub(r'[^a-zA-Z0-9_-]+', '_', s): every run of unsafe characters becomes one "_"
RECURSIVE ReSub(_)
ReSub(s) ==
    IF s = <<>> THEN <<>>
    ELSE IF ~IsUnsafe(Head(s)) THEN <<Head(s)>> \o ReSub(Tail(s))
    ELSE IF Tail(s) # <<>> /\ IsUnsafe(Head(Tail(s))) THEN ReSub(Tail(s))
    ELSE <<"_">> \o ReSub(Tail(s))

\* s.replace(old, new), old one character, new a string
RECURSIVE Replace(_, _, _)
Replace(s, old, new) ==
    IF s = <<>> THEN <<>>
    ELSE (IF Head(s) = old THEN new ELSE <<Head(s)>>) \o Replace(Tail(s), old, new)

Dipendente == <<"d", "i", "p", "e", "n", "d", "e", "n", "t", "e">>
DotPdf == <<".", "p", "d", "f">>

\* safe_name of analyze_pdf with the character test of _slugify_name
SafeName_Isalnum(name) ==
    LET stripped == Strip(name)
        kept == [i \in DOMAIN stripped |->
                    IF IsAlnum(stripped[i]) \/ stripped[i] \in {"_", "-"}
                    THEN stripped[i] ELSE "_"]
    IN  IF kept = <<>> THEN Dipendente ELSE kept

\* safe_name of analyze_pdf
SafeName(name) == IF ReSub(Strip(name)) = <<>> THEN Dipendente ELSE ReSub(Strip(name))

\* period_tag of analyze_pdf
PeriodTag(label) == Replace(Replace(Replace(label, " ", <<>>), "/", <<"-">>), ":", <<"-">>)

\* report_filename of analyze_pdf
ReportFilename(name, label) ==
    <<"R", "e", "p", "o", "r", "t", "_">> \o SafeName(name) \o <<"_">>
        \o PeriodTag(label) \o DotPdf

\* the character _slugify_name keeps or puts for c
SlugChar(c) == IF IsAlnum(c) \/ c \in {"_", "-"} THEN c ELSE "_"

SlugifyName(name) ==
    LET stripped == Strip(name)
        cleaned == [i \in DOMAIN stripped |-> SlugChar(stripped[i])]
    IN  IF cleaned = <<>> THEN Dipendente ELSE cleaned

BuildComparisonFilename(name1, name2) ==
    <<"C", "o", "n", "f", "r", "o", "n", "t", "o", "_">> \o SlugifyName(name1)
        \o <<"_", "v", "s", "_">> \o SlugifyName(name2) \o DotPdf

(***************************************************************************)
(* The comparison merge and the pages built on it.                         *)
(***************************************************************************)
RECURSIVE SortedLabels(_)
SortedLabels(S) ==
    IF S = {} THEN <<>>
    ELSE LET m == CHOOSE x \in S : \A y \in S : ~StrLess(y, x)
         IN  <<m>> \o SortedLabels(S \ {m})

\* df["month_label"].tolist() if not df.empty else []
LabelList(table) == [i \in DOMAIN table |-> table[i].month_label]

\* {row["month_label"]: row[f] for _, row in df.iterrows()}: a later row replaces an
\* earlier one with the same label
ColumnDict(table, f) ==
    [l \in {table[i].month_label : i \in DOMAIN table} |->
        LET last == CHOOSE i \in DOMAIN table :
                        /\ table[i].month_label = l
                        /\ \A j \in DOMAIN table : table[j].month_label = l => j <= i
        IN  table[last][f]]

\* d.get(key, 0.0)
Get(d, key) == IF key \in DOMAIN d THEN d[key] ELSE Zero

\* MergeMonthlyData with the labels of the first table only
MergeMonthlyData_LeftLabels(table1, table2) ==
    LET labels1 == LabelList(table1)
    IN  [labels |-> SortedLabels({labels1[i] : i \in DOMAIN labels1}),
         h1 |-> ColumnDict(table1, "hours_worked"),
         o1 |-> ColumnDict(table1, "overtime"),
         h2 |-> ColumnDict(table2, "hours_worked"),
         o2 |-> ColumnDict(table2, "overtime")]

MergeMonthlyData(table1, table2) ==
    LET labels1 == LabelList(table1)
        labels2 == LabelList(table2)
    IN  [labels |-> SortedLabels({labels1[i] : i \in DOMAIN labels1}
                                    \cup {labels2[i] : i \in DOMAIN labels2}),
         h1 |-> ColumnDict(table1, "hours_worked"),
         o1 |-> ColumnDict(table1, "overtime"),
         h2 |-> ColumnDict(table2, "hours_worked"),
         o2 |-> ColumnDict(table2, "overtime")]

\* f"{x:.2f}", as the number of hundredths printed (ties to even)
Format2f(x) ==
    LET n == x.num * 100
        q == n \div x.den
        r == n - q * x.den
    IN  IF 2 * r > x.den \/ (2 * r = x.den /\ q % 2 = 1) THEN q + 1 ELSE q

\* the rows of the table of page 2, without the header
ComparisonTable(table1, table2) ==
    LET mg == MergeMonthlyData(table1, table2)
    IN  [i \in DOMAIN mg.labels |->
            <<mg.labels[i],
              Format2f(Get(mg.h1, mg.labels[i])), Format2f(Get(mg.o1, mg.labels[i])),
              Format2f(Get(mg.h2, mg.labels[i])), Format2f(Get(mg.o2, mg.labels[i]))>>]

\* the x axis and the two series plotted on page 3
ComparisonHours(table1, table2) ==
    LET mg == MergeMonthlyData(table1, table2)
    IN  [labels |-> mg.labels,
         y1 |-> [i \in DOMAIN mg.labels |-> Get(mg.h1, mg.labels[i])],
         y2 |-> [i \in DOMAIN mg.labels |-> Get(mg.h2, mg.labels[i])]]

\* the x axis and the two series plotted on page 4
ComparisonOvertime(table1, table2) ==
    LET mg == MergeMonthlyData(table1, table2)
    IN  [labels |-> mg.labels,
         y1 |-> [i \in DOMAIN mg.labels |-> Get(mg.o1, mg.labels[i])],
         y2 |-> [i \in DOMAIN mg.labels |-> Get(mg.o2, mg.labels[i])]]

\* a file written into the report folder
WriteFile(folder, name, content) ==
    [f \in DOMAIN folder \cup {name} |-> IF f = name THEN content ELSE folder[f]]

(***************************************************************************)
(* The inputs of the model.                                                *)
(***************************************************************************)
RECURSIVE SeqsUpTo(_, _)
SeqsUpTo(S, n) ==
    IF n = 0 THEN {<<>>}
    ELSE LET shorter == SeqsUpTo(S, n - 1)
         IN  shorter \cup {Append(t, x) : t \in {u \in shorter : Len(u) = n - 1}, x \in S}

RECURSIVE Flatten(_)
Flatten(ss) == IF ss = <<>> THEN <<>> ELSE Head(ss) \o Flatten(Tail(ss))

LDate == <<DateTok(1, 1, 2025)>>
LLeapDate == <<Word, DateTok(29, 2, 2024)>>
LBadDate == <<DateTok(31, 2, 2025)>>
LZeroDate == <<DateTok(0, 13, 2025)>>
LDateAndTime == <<TimeTok(5, 30, 13, 30), DateTok(9, 1, 2025)>>
LShift == <<Word, TimeTok(5, 30, 13, 30)>>
LNight == <<TimeTok(23, 30, 0, 15)>>
LSame == <<TimeTok(8, 0, 8, 0)>>
LBadHour == <<TimeTok(24, 0, 5, 0), TimeTok(5, 30, 13, 30)>>
LBadMinute == <<TimeTok(5, 60, 6, 0)>>
LWord == <<Word>>
LLong == <<TimeTok(8, 0, 18, 0)>>

\* the lines of a free-form text
Lines == {LDate, LLeapDate, LBadDate, LZeroDate, LDateAndTime, LShift, LNight, LSame,
          LBadHour, LBadMinute, LWord}

FreeTexts == SeqsUpTo(Lines, MaxLines)

\* the date lines and the shift lines of a well-formed timesheet
DayLines == {<<DateTok(2, 1, 2025)>>, <<DateTok(9, 1, 2025)>>,
             <<DateTok(31, 12, 2024)>>, <<DateTok(28, 2, 2024)>>}
ShiftLines == {LShift, LNight}

\* a day block: a date line and its first shift, or one more shift of the same day
Blocks == {<<d, t>> : d \in DayLines, t \in ShiftLines} \cup {<<t>> : t \in ShiftLines}

SheetTexts == {Flatten(b) : b \in SeqsUpTo(Blocks, MaxBlocks)}

\* the timesheets of the comparison runs: one shift a day, or a page without data
CompareBlocks == {<<d, LLong>> : d \in DayLines \ {<<DateTok(9, 1, 2025)>>}}
                    \cup {<<LWord>>}

CompareTexts == {Flatten(b) : b \in SeqsUpTo(CompareBlocks, MaxBlocks)}

WeeklyHours == {Rat(20, 1), Rat(75, 2), Zero}

Names == SeqsUpTo(NameChars, MaxNameLen)

SomeName == <<"a", "a">>
FewNames == {<<>>, <<"a">>, <<"U+00E9", "/">>}

NoError == "none"
NoRecordsFound == "ValueError: Nessuna timbratura riconosciuta nel PDF"

\* the state every analysis starts in
Start ==
    /\ pc = "parse"
    /\ cur = 1
    /\ idx = 1
    /\ current_date = None
    /\ records = <<>>
    /\ df = <<None, None>>
    /\ summary = <<None, None>>
    /\ monthly_df = <<None, None>>
    /\ reports = <<>>
    /\ result = None
    /\ error = NoError
    /\ uploads = <<>>
    /\ handler = <<>>

\* analyze_pdf on a free-form text
InitFree ==
    /\ mode = "single"
    /\ \E t \in FreeTexts : pdf = <<t, <<>>>>
    /\ employee_name = <<SomeName, <<>>>>
    /\ weekly_hours = <<Rat(20, 1), Zero>>
    /\ Start

\* analyze_pdf on a well-formed timesheet
InitSheet ==
    /\ mode = "single"
    /\ \E t \in SheetTexts : pdf = <<t, <<>>>>
    /\ employee_name = <<SomeName, <<>>>>
    /\ \E w \in WeeklyHours : weekly_hours = <<w, Zero>>
    /\ Start

\* analyze_pdf for any employee name
InitName ==
    /\ mode = "single"
    /\ pdf = <<<<LDate, LShift>>, <<>>>>
    /\ \E n \in Names : employee_name = <<n, <<>>>>
    /\ weekly_hours = <<Rat(20, 1), Zero>>
    /\ Start

\* analyze_two_pdfs_comparison on two timesheets
InitCompare ==
    /\ mode = "compare"
    /\ \E t1 \in CompareTexts, t2 \in CompareTexts : pdf = <<t1, t2>>
    /\ employee_name = <<SomeName, <<"7">>>>
    /\ weekly_hours = <<Rat(20, 1), Rat(75, 2)>>
    /\ Start

\* analyze_two_pdfs_comparison for any pair of employee names
InitCompareNames ==
    /\ mode = "compare"
    /\ pdf = <<<<LDate, LShift>>, <<LDate, LNight>>>>
    /\ \E n \in Names, m \in FewNames :
            employee_name = <<n, m>> \/ employee_name = <<m, n>>
    /\ weekly_hours = <<Rat(20, 1), Rat(75, 2)>>
    /\ Start

Init == InitFree \/ InitSheet \/ InitName \/ InitCompare \/ InitCompareNames

(***************************************************************************)
(* The steps of an analysis.                                               *)
(***************************************************************************)
\* parse_pdf_to_dataframe: one pass of the loop over the lines
ParseLine ==
    /\ pc = "parse"
    /\ idx <= Len(pdf[cur])
    /\ current_date' = DateAfter(pdf[cur][idx], current_date)
    /\ records' = RecordsAfter(pdf[cur][idx], current_date, records)
    /\ idx' = idx + 1
    /\ UNCHANGED <<mode, pdf, employee_name, weekly_hours, pc, cur, df, summary,
                   monthly_df, reports, result, error>>
    /\ UNCHANGED server

\* ParseEnd that returns the frame also when it is empty
ParseEnd_ReturnsEmpty ==
    /\ pc = "parse"
    /\ idx > Len(pdf[cur])
    /\ pc' = "stats"
    /\ df' = [df EXCEPT ![cur] = records]
    /\ UNCHANGED <<mode, pdf, employee_name, weekly_hours, cur, idx, current_date,
                   records, summary, monthly_df, reports, result, error>>
    /\ UNCHANGED server

\* parse_pdf_to_dataframe: after the loop, raise on no records or return the frame
ParseEnd ==
    /\ pc = "parse"
    /\ idx > Len(pdf[cur])
    /\ IF records = <<>>
       THEN /\ pc' = "raised"
            /\ error' = NoRecordsFound
            /\ df' = df
       ELSE /\ pc' = "stats"
            /\ error' = error
            /\ df' = [df EXCEPT ![cur] = records]
    /\ UNCHANGED <<mode, pdf, employee_name, weekly_hours, cur, idx, current_date,
                   records, summary, monthly_df, reports, result>>
    /\ UNCHANGED server

\* compute_monthly_stats on the frame just parsed; in a comparison the second
\* PDF is parsed next
ComputeStats ==
    /\ pc = "stats"
    /\ summary' = [summary EXCEPT ![cur] = Summary(df[cur], weekly_hours[cur])]
    /\ monthly_df' = [monthly_df EXCEPT ![cur] = MonthlyTable(df[cur], weekly_hours[cur])]
    /\ IF mode = "compare" /\ cur = 1
       THEN /\ pc' = "parse"
            /\ cur' = 2
            /\ idx' = 1
            /\ current_date' = None
            /\ records' = <<>>
       ELSE /\ pc' = "report"
            /\ UNCHANGED <<cur, idx, current_date, records>>
    /\ UNCHANGED <<mode, pdf, employee_name, weekly_hours, df, reports, result, error>>
    /\ UNCHANGED server

\* analyze_pdf: the file name, the report written, the value returned
GenerateReport ==
    /\ pc = "report"
    /\ mode = "single"
    /\ LET report_filename == ReportFilename(employee_name[1], summary[1].period_label)
       IN  /\ reports' = WriteFile(reports, report_filename,
                            [employee_name |-> employee_name[1],
                             weekly_hours |-> weekly_hours[1],
                             summary |-> summary[1],
                             monthly_df |-> monthly_df[1]])
           /\ result' = <<report_filename, summary[1]>>
    /\ pc' = "done"
    /\ UNCHANGED <<mode, pdf, employee_name, weekly_hours, cur, idx, current_date,
                   records, df, summary, monthly_df, error>>
    /\ UNCHANGED server

\* analyze_two_pdfs_comparison: the file name, the report written, the value returned
GenerateComparison ==
    /\ pc = "report"
    /\ mode = "compare"
    /\ LET filename == BuildComparisonFilename(employee_name[1], employee_name[2])
       IN  /\ reports' = WriteFile(reports, filename,
                            [summary1 |-> summary[1],
                             summary2 |-> summary[2],
                             table |-> ComparisonTable(monthly_df[1], monthly_df[2]),
                             hours |-> ComparisonHours(monthly_df[1], monthly_df[2]),
                             overtime |-> ComparisonOvertime(monthly_df[1], monthly_df[2])])
           /\ result' = <<filename, summary[1], summary[2]>>
    /\ pc' = "done"
    /\ UNCHANGED <<mode, pdf, employee_name, weekly_hours, cur, idx, current_date,
                   records, df, summary, monthly_df, error>>
    /\ UNCHANGED server

Next == ParseLine \/ ParseEnd \/ ComputeStats \/ GenerateReport \/ GenerateComparison

Spec == Init /\ [][Next]_vars

(***************************************************************************)
(* The request handlers of app.py: index and compare. A request is served  *)
(* by its own thread; the upload folder and the report folder are on disk  *)
(* and belong to the whole server.                                         *)
(***************************************************************************)
\* the number of requests in flight
MaxRequests == 2

Requests == 1..MaxRequests

UpperCase ==
    <<"A", "B", "C", "D", "E", "F", "G", "H", "I", "J", "K", "L", "M",
      "N", "O", "P", "Q", "R", "S", "T", "U", "V", "W", "X", "Y", "Z">>
LowerCase ==
    <<"a", "b", "c", "d", "e", "f", "g", "h", "i", "j", "k", "l", "m",
      "n", "o", "p", "q", "r", "s", "t", "u", "v", "w", "x", "y", "z">>

\* str.lower() on an ASCII string
Lower(s) ==
    [i \in DOMAIN s |->
        IF \E j \in DOMAIN UpperCase : UpperCase[j] = s[i]
        THEN LowerCase[CHOOSE j \in DOMAIN UpperCase : UpperCase[j] = s[i]]
        ELSE s[i]]

\* s.endswith(suffix)
EndsWith(s, suffix) ==
    Len(s) >= Len(suffix) /\ SubSeq(s, Len(s) - Len(suffix) + 1, Len(s)) = suffix

\* "_".join(s.split()) for a string without leading or trailing whitespace
RECURSIVE JoinSplit(_)
JoinSplit(s) ==
    IF s = <<>> THEN <<>>
    ELSE IF IsSpace(Head(s))
         THEN (IF IsSpace(s[2]) THEN <<>> ELSE <<"_">>) \o JoinSplit(Tail(s))
         ELSE <<Head(s)>> \o JoinSplit(Tail(s))

\* s.strip("._")
RECURSIVE StripDots(_)
StripDots(s) ==
    IF s # <<>> /\ Head(s) \in {".", "_"} THEN StripDots(Tail(s))
    ELSE IF s # <<>> /\ s[Len(s)] \in {".", "_"} THEN StripDots(SubSeq(s, 1, Len(s) - 1))
    ELSE s

\* werkzeug's secure_filename on an ASCII file name: the path separators become
\* blanks, the words are joined by "_", what is left outside [A-Za-z0-9_.-] is
\* dropped, and the dots and underscores at both ends are stripped
SecureFilename(name) ==
    LET words == JoinSplit(Strip(Replace(name, "/", <<" ">>)))
    IN  StripDots(SelectSeq(words, LAMBDA c : IsAsciiAlnum(c) \/ c \in {"_", ".", "-"}))

\* the value of a string of digits
RECURSIVE DigitsValue(_)
DigitsValue(s) ==
    IF s = <<>> THEN 0
    ELSE 10 * DigitsValue(SubSeq(s, 1, Len(s) - 1))
            + (CHOOSE d \in 0..9 : DigitChar(d) = s[Len(s)])

RECURSIVE PowerOfTen(_)
PowerOfTen(n) == IF n = 0 THEN 1 ELSE 10 * PowerOfTen(n - 1)

\* float(s) accepts s: an optional sign, then digits with at most one point
\* (the model's strings have no letter that float() reads: no e, inf or nan)
FloatOk(s) ==
    LET t == Strip(s)
        body == IF t # <<>> /\ Head(t) \in {"+", "-"} THEN Tail(t) ELSE t
    IN  /\ \A i \in DOMAIN body : body[i] \in AsciiDigits \cup {"."}
        /\ Cardinality({i \in DOMAIN body : body[i] = "."}) <= 1
        /\ \E i \in DOMAIN body : body[i] \in AsciiDigits

\* float(s), None standing for the ValueError
Float(s) ==
    IF ~FloatOk(s) THEN None
    ELSE LET t == Strip(s)
             negative == Head(t) = "-"
             body == IF Head(t) \in {"+", "-"} THEN Tail(t) ELSE t
             point == IF \E i \in DOMAIN body : body[i] = "."
                      THEN CHOOSE i \in DOMAIN body : body[i] = "."
                      ELSE Len(body) + 1
             digits == SelectSeq(body, LAMBDA c : c # ".")
             value == Rat(DigitsValue(digits), PowerOfTen(Len(digits) - point + 1))
         IN  IF negative THEN RatSub(Zero, value) ELSE value

\* the exceptions an analysis can raise: the class, its base classes, the message
NoRecordsError ==
    [class |-> "ValueError", bases |-> {"ValueError", "Exception"},
     message |-> NoRecordsFound]
OutOfBoundsDatetime ==
    [class |-> "OutOfBoundsDatetime", bases |-> {"ValueError", "Exception"},
     message |-> "Out of bounds nanosecond timestamp"]
PDFSyntaxError ==
    [class |-> "PDFSyntaxError", bases |-> {"Exception"},
     message |-> "No /Root object! - Is this really a PDF?"]
OSError ==
    [class |-> "OSError", bases |-> {"Exception"},
     message |-> "No space left on device"]

\* pd.to_datetime can hold the date: it lies strictly between Timestamp.min
\* (1677-09-21 00:12:43) and Timestamp.max (2262-04-11 23:47:16)
ToDatetimeOk(date) ==
    LET before(a, b) == \/ a[1] < b[1]
                        \/ a[1] = b[1] /\ a[2] < b[2]
                        \/ a[1] = b[1] /\ a[2] = b[2] /\ a[3] < b[3]
    IN  before(<<1677, 9, 21>>, date) /\ ~before(<<2262, 4, 11>>, date)

\* parse_pdf_to_dataframe: the loop over the lines, from line i on
RECURSIVE ParseFrom(_, _, _, _)
ParseFrom(text, i, date, recs) ==
    IF i > Len(text) THEN recs
    ELSE ParseFrom(text, i + 1, DateAfter(text[i], date), RecordsAfter(text[i], date, recs))

\* parse_pdf_to_dataframe and compute_monthly_stats on the content of one file:
\* the exception raised, or the summary and the monthly table
AnalyzeInput(content, weekly) ==
    LET frame == ParseFrom(content.text, 1, None, <<>>)
    IN  IF ~content.is_pdf
        THEN [raised |-> PDFSyntaxError, summary |-> None, monthly_df |-> None]
        ELSE IF frame = <<>>
        THEN [raised |-> NoRecordsError, summary |-> None, monthly_df |-> None]
        ELSE IF \E i \in DOMAIN frame : ~ToDatetimeOk(frame[i].date)
        THEN [raised |-> OutOfBoundsDatetime, summary |-> None, monthly_df |-> None]
        ELSE [raised |-> None,
              summary |-> Summary(frame, weekly),
              monthly_df |-> MonthlyTable(frame, weekly)]

\* an uploaded file: the name the client gave it and what it holds, the text
\* pdfplumber extracts from it when it is a PDF
File(filename, is_pdf, text) ==
    [filename |-> filename, content |-> [is_pdf |-> is_pdf, text |-> text]]

\* the fields of the form for one employee
Fields(name, hours, file) ==
    [employee_name |-> name, weekly_hours |-> hours, pdf_file |-> file]

\* a request as its handler finds it, and the handler's local variables
Request(route, method, form) ==
    [route |-> route, method |-> method, form |-> form,
     pc |-> "start", k |-> 1,
     employee_name |-> <<None, None>>,
     weekly_hours |-> <<None, None>>,
     path |-> <<None, None>>,
     summary |-> <<None, None>>,
     monthly_df |-> <<None, None>>,
     raised |-> None,
     view |-> None]

\* the number of employees of a form
Employees(route) == IF route = "index" THEN 1 ELSE 2

\* bool(file): a file was sent and it has a name
Truthy(file) == file # None /\ file.filename # <<>>

FormTemplate(route) == IF route = "index" THEN "index.html" ELSE "compare.html"
ResultTemplate(route) == IF route = "index" THEN "success.html" ELSE "compare_result.html"

MissingFields(route) ==
    IF route = "index" THEN "Compila tutti i campi e carica un PDF."
    ELSE "Compila tutti i campi e carica i due PDF."
NotANumber(route) ==
    IF route = "index" THEN "Le ore settimanali devono essere un numero (es. 20)."
    ELSE "Le ore settimanali devono essere numeriche (es. 20 e 15)."
NotAPdf(route) ==
    IF route = "index" THEN "Carica solo file in formato PDF (.pdf)."
    ELSE "Carica solo file in formato PDF (.pdf) per entrambi i dipendenti."
AnalysisError(route) ==
    IF route = "index" THEN "Errore durante l'analisi del PDF: "
    ELSE "Errore durante l'analisi dei PDF: "
UnexpectedError(route) ==
    IF route = "index" THEN "Errore imprevisto durante l'elaborazione del PDF: "
    ELSE "Errore imprevisto durante l'elaborazione dei PDF: "

\* render_template(...): the template and what it is given
View(template, message, e, summaries, report_filename) ==
    [template |-> template, error |-> message, e |-> e,
     summary |-> summaries, report_filename |-> report_filename]

\* the handler returns the form with an error message
Rejected(h, message, e) ==
    [h EXCEPT !.pc = "done",
              !.view = View(FormTemplate(h.route), message, e, None, None)]

\* try: analyze... except ValueError as e: ... except Exception as e: ...
Caught(h, e) ==
    IF "ValueError" \in e.bases
    THEN [Rejected(h, AnalysisError(h.route), e.message) EXCEPT !.raised = e]
    ELSE IF "Exception" \in e.bases
    THEN [Rejected(h, UnexpectedError(h.route), e.message) EXCEPT !.raised = e]
    ELSE [h EXCEPT !.pc = "propagated", !.raised = e]

\* the texts of the uploaded PDFs
TextJanuary == <<LDate, LShift>>
TextDecember == <<<<DateTok(31, 12, 2024)>>, LLong>>
TextNoData == <<LWord>>
TextYear3000 == <<<<DateTok(1, 1, 3000)>>, LShift>>

\* the names of the uploaded files
APdf == <<"a", ".", "p", "d", "f">>
BPdfUpper == <<"b", ".", "P", "D", "F">>
ATxt == <<"a", ".", "t", "x", "t">>
UpAPdf == <<".", ".", "/", "a", " ", "a", ".", "p", "d", "f">>
OneAPdf == <<"1", "_", "a", ".", "p", "d", "f">>

\* the weekly hours as typed
WeeklyStrings ==
    {<<"2", "0">>, <<" ", "3", "7", ",", "5">>, <<"0">>, <<"-", "5">>, <<"a">>,
     <<"1", ".", "5", ".">>, <<" ">>}

\* a form of the page of one employee
IndexForms ==
    {<<Fields(n, w, f), None>> :
        n \in {<<"a">>, <<" ">>},
        w \in WeeklyStrings,
        f \in {None, File(<<>>, TRUE, TextJanuary), File(ATxt, FALSE, <<>>)}
                \cup {File(name, TRUE, TextJanuary) : name \in {APdf, BPdfUpper, ATxt, UpAPdf}}}

CompareFields ==
    {Fields(n, w, f) :
        n \in {<<"a">>, <<>>},
        w \in {<<"2", "0">>, <<"0">>, <<"a">>},
        f \in {None, File(APdf, TRUE, TextJanuary), File(ATxt, TRUE, TextJanuary),
               File(APdf, TRUE, TextNoData)}}

\* the requests that exercise the checks on the form
AnyRequests ==
    {Request("index", "POST", f) : f \in IndexForms}
        \cup {Request("compare", "POST", <<f1, f2>>) : f1 \in CompareFields, f2 \in CompareFields}
        \cup {Request(route, "GET", <<None, None>>) : route \in {"index", "compare"}}

\* the requests that pass the checks on the form
GoodRequests ==
    {Request("index", "POST", <<Fields(<<"a">>, w, File(name, c[1], c[2])), None>>) :
        w \in {<<"2", "0">>, <<"-", "5">>},
        name \in {APdf, OneAPdf},
        c \in {<<TRUE, TextJanuary>>, <<TRUE, TextDecember>>, <<TRUE, TextNoData>>,
               <<TRUE, TextYear3000>>, <<FALSE, <<>>>>}}
        \cup {Request("compare", "POST",
                      <<Fields(<<"a">>, <<"2", "0">>, File(APdf, TRUE, t1)),
                        Fields(<<"7">>, <<"3", "7", ",", "5">>, File(APdf, TRUE, t2))>>) :
                t1 \in {TextJanuary, TextDecember}, t2 \in {TextJanuary, TextDecember}}

\* no analysis of the first part of the model is under way
NoAnalysis ==
    /\ mode = "server"
    /\ pdf = <<>>
    /\ employee_name = <<>>
    /\ weekly_hours = <<>>
    /\ pc = "idle"
    /\ cur = 1
    /\ idx = 1
    /\ current_date = None
    /\ records = <<>>
    /\ df = <<None, None>>
    /\ summary = <<None, None>>
    /\ monthly_df = <<None, None>>
    /\ result = None
    /\ error = NoError

\* one request of any kind, next to requests for the empty page
InitForms ==
    \E q \in AnyRequests :
        handler = [r \in Requests |->
                    IF r = 1 THEN q ELSE Request("index", "GET", <<None, None>>)]

\* two requests that pass the checks, served at the same time
InitRace ==
    \E q1 \in GoodRequests, q2 \in GoodRequests :
        handler = [r \in Requests |->
                    IF r = 1 THEN q1
                    ELSE IF r = 2 THEN q2
                    ELSE Request("index", "GET", <<None, None>>)]

ServerInit ==
    /\ NoAnalysis
    /\ uploads = <<>>
    /\ reports = <<>>
    /\ (InitForms \/ InitRace)

\* index and compare up to the upload: the checks on the form
Validate(r) ==
    LET h == handler[r]
        n == Employees(h.route)
        name(k) == Strip(h.form[k].employee_name)
        hours_str(k) == Strip(h.form[k].weekly_hours)
        file(k) == h.form[k].pdf_file
        hours(k) == Float(Replace(hours_str(k), ",", <<".">>))
        filename(k) == SecureFilename(file(k).filename)
        prefix(k) == IF h.route = "index" THEN <<>> ELSE <<DigitChar(k), "_">>
    IN  /\ h.pc = "start"
        /\ handler' = [handler EXCEPT ![r] =
                IF h.method = "GET"
                THEN [h EXCEPT !.pc = "done",
                               !.view = View(FormTemplate(h.route), None, None, None, None)]
                ELSE IF \E k \in 1..n :
                            name(k) = <<>> \/ hours_str(k) = <<>> \/ ~Truthy(file(k))
                THEN Rejected(h, MissingFields(h.route), None)
                ELSE IF \E k \in 1..n : hours(k) = None
                THEN Rejected(h, NotANumber(h.route), None)
                ELSE IF \E k \in 1..n : ~EndsWith(Lower(filename(k)), DotPdf)
                THEN Rejected(h, NotAPdf(h.route), None)
                ELSE [h EXCEPT !.pc = "save",
                               !.employee_name =
                                    [k \in 1..2 |-> IF k <= n THEN name(k) ELSE None],
                               !.weekly_hours =
                                    [k \in 1..2 |-> IF k <= n THEN hours(k) ELSE None],
                               !.path =
                                    [k \in 1..2 |-> IF k <= n THEN prefix(k) \o filename(k)
                                                    ELSE None]]]
        /\ UNCHANGED <<uploads, reports>>
        /\ UNCHANGED analysis

\* file.save(upload_path), for the next file of the form
SaveUpload(r) ==
    LET h == handler[r]
    IN  /\ h.pc = "save"
        /\ uploads' = WriteFile(uploads, h.path[h.k], h.form[h.k].pdf_file.content)
        /\ handler' = [handler EXCEPT ![r] =
                IF h.k < Employees(h.route) THEN [h EXCEPT !.k = h.k + 1]
                ELSE [h EXCEPT !.pc = "analyze", !.k = 1]]
        /\ UNCHANGED reports
        /\ UNCHANGED analysis

\* analyze_pdf and analyze_two_pdfs_comparison up to the report: the next file
\* is read from the upload folder, parsed and aggregated
ReadUpload(r) ==
    LET h == handler[r]
        out == AnalyzeInput(uploads[h.path[h.k]], h.weekly_hours[h.k])
    IN  /\ h.pc = "analyze"
        /\ handler' = [handler EXCEPT ![r] =
                IF out.raised # None THEN Caught(h, out.raised)
                ELSE [h EXCEPT !.summary[h.k] = out.summary,
                               !.monthly_df[h.k] = out.monthly_df,
                               !.k = IF h.k < Employees(h.route) THEN h.k + 1 ELSE 1,
                               !.pc = IF h.k < Employees(h.route) THEN "analyze"
                                      ELSE "report"]]
        /\ UNCHANGED <<uploads, reports>>
        /\ UNCHANGED analysis

\* what the report of a request holds
ReportContent(h) ==
    IF h.route = "index"
    THEN [employee_name |-> h.employee_name[1],
          weekly_hours |-> h.weekly_hours[1],
          summary |-> h.summary[1],
          monthly_df |-> h.monthly_df[1]]
    ELSE [summary1 |-> h.summary[1],
          summary2 |-> h.summary[2],
          table |-> ComparisonTable(h.monthly_df[1], h.monthly_df[2]),
          hours |-> ComparisonHours(h.monthly_df[1], h.monthly_df[2]),
          overtime |-> ComparisonOvertime(h.monthly_df[1], h.monthly_df[2])]

\* the rest of the analysis and of the handler: the report is written, unless
\* the disk fails, and the view is rendered
WriteReport(r) ==
    LET h == handler[r]
        filename == IF h.route = "index"
                    THEN ReportFilename(h.employee_name[1], h.summary[1].period_label)
                    ELSE BuildComparisonFilename(h.employee_name[1], h.employee_name[2])
        summaries == IF h.route = "index" THEN <<h.summary[1]>>
                     ELSE <<h.summary[1], h.summary[2]>>
    IN  /\ h.pc = "report"
        /\ \E written \in BOOLEAN :
            IF written
            THEN /\ reports' = WriteFile(reports, filename, ReportContent(h))
                 /\ handler' = [handler EXCEPT ![r] =
                        [h EXCEPT !.pc = "done",
                                  !.view = View(ResultTemplate(h.route), None, None,
                                                summaries, filename)]]
            ELSE /\ reports' = reports
                 /\ handler' = [handler EXCEPT ![r] = Caught(h, OSError)]
        /\ UNCHANGED uploads
        /\ UNCHANGED analysis

ServerNext == \E r \in Requests : Validate(r) \/ SaveUpload(r) \/ ReadUpload(r) \/ WriteReport(r)

ServerSpec == ServerInit /\ [][ServerNext]_vars

(***************************************************************************)
(* What the text of a PDF says, line by line (used to state the properties *)
(* of the parser against its input).                                       *)
(***************************************************************************)
\* the index of the last line before line i that holds a date token, 0 if none
RECURSIVE LastDateLine(_, _)
LastDateLine(text, i) ==
    IF i <= 1 THEN 0
    ELSE IF DateSearch(text[i - 1]) # None THEN i - 1
    ELSE LastDateLine(text, i - 1)

HasDate(line) == \E j \in DOMAIN line : line[j].kind = "date"
HasTime(line) == \E j \in DOMAIN line : line[j].kind = "time"

\* the first time-pair of line i has hours in [0,24) and minutes in [0,60)
ValidTimes(line) ==
    /\ HasTime(line)
    /\ TimeSearch(line).sh \in 0..23 /\ TimeSearch(line).eh \in 0..23
    /\ TimeSearch(line).sm \in 0..59 /\ TimeSearch(line).em \in 0..59

\* line i follows a valid date line, holds no date and starts with a valid time-pair
IsShiftLine(text, i) ==
    /\ ~HasDate(text[i])
    /\ LastDateLine(text, i) > 0
    /\ StrptimeOk(DateSearch(text[LastDateLine(text, i)]))
    /\ ValidTimes(text[i])

\* the date a shift line is anchored to
AnchorDate(text, i) ==
    LET tok == DateSearch(text[LastDateLine(text, i)]) IN <<tok.y, tok.m, tok.d>>

\* the number of shift lines among the first n lines
ShiftLineCount(text, n) == Cardinality({i \in 1..n : IsShiftLine(text, i)})

\* the step of the parser over line idx of the PDF being parsed
LineStep == pc = "parse" /\ idx <= Len(pdf[cur]) /\ idx' = idx + 1

C2_IntervalsWellFormed ==
    \A i \in DOMAIN records :
        LET r == records[i]
            from == r.start.hour * 60 + r.start.minute
            to == r.end.hour * 60 + r.end.minute
            days == Ordinal(r.end.date) - Ordinal(r.date)
        IN  /\ r.start.date = r.date
            /\ days > 0 \/ (days = 0 /\ to >= from)
            /\ r.hours.den > 0
            /\ r.hours.num * 60 = (days * 1440 + to - from) * r.hours.den
            /\ r.hours.num >= 0
            /\ r.hours.num < 24 * r.hours.den
            /\ (r.date = <<2025, 1, 1>> /\ from = 23 * 60 + 30 /\ to = 15 =>
                    r.hours = [num |-> 3, den |-> 4] /\ r.end.date = <<2025, 1, 2>>)
            /\ (from = to => r.hours = [num |-> 0, den |-> 1] /\ r.end.date = r.date)

\* the night shift of 01/01/2025 and a shift with equal times were both parsed
C2_Witness ==
    /\ \E i \in DOMAIN records :
            /\ records[i].date = <<2025, 1, 1>>
            /\ records[i].start.hour = 23 /\ records[i].start.minute = 30
            /\ records[i].end.hour = 0 /\ records[i].end.minute = 15
    /\ \E i \in DOMAIN records :
            /\ records[i].start.hour = records[i].end.hour
            /\ records[i].start.minute = records[i].end.minute

(***************************************************************************)
(* C3: a line that holds a date token never adds an interval, also when it *)
(* holds a valid time-pair: it only sets the date cursor.                  *)
(***************************************************************************)
C3_DateLineAddsNoInterval ==
    [][LineStep /\ HasDate(pdf[cur][idx]) =>
        /\ records' = records
        /\ current_date' = Strptime(DateSearch(pdf[cur][idx]))
        /\ pc' = "parse" /\ error' = error]_vars

\* the line just read holds a time-pair and the date 09/01/2025, after a shift of
\* 01/01/2025 was recorded
C3_Witness ==
    /\ pc = "parse"
    /\ idx > 1
    /\ pdf[cur][idx - 1] = LDateAndTime
    /\ current_date = <<2025, 1, 9>>
    /\ Len(records) = 1
    /\ records[1].date = <<2025, 1, 1>>

(***************************************************************************)
(* C4: a line without a date token that is read before any date line, or   *)
(* that holds no time-pair, or whose time-pair is out of range, is         *)
(* skipped: no interval is added, the date cursor and the intervals        *)
(* collected stay as they are, the parse goes on; so at every moment of    *)
(* the parse there is one interval for each shift line read so far.        *)
(***************************************************************************)
C4_BadLineIsSkipped ==
    [][/\ (/\ LineStep
           /\ ~HasDate(pdf[cur][idx])
           /\ \/ LastDateLine(pdf[cur], idx) = 0
              \/ ~HasTime(pdf[cur][idx])
              \/ ~ValidTimes(pdf[cur][idx])
           => /\ records' = records
              /\ current_date' = current_date
              /\ pc' = "parse" /\ error' = error)
       /\ (pc' = "parse" => Len(records') = ShiftLineCount(pdf'[cur'], idx' - 1))]_vars

\* a shift was recorded after a line before any date, and after a line out of range
C4_Witness ==
    /\ pc = "parse"
    /\ idx = 4
    /\ Len(records) = 1
    /\ \/ (pdf[cur][1] = LShift /\ HasDate(pdf[cur][2]))
       \/ (pdf[cur][2] \in {LBadHour, LBadMinute, LWord})

\* the PDFs of the run
Sources == IF mode = "single" THEN {1} ELSE {1, 2}

\* the parse of PDF k is over
Scanned(k) == cur > k \/ (cur = k /\ pc # "parse")

\* the text of PDF k holds no shift line
YieldsNothing(k) == ShiftLineCount(pdf[k], Len(pdf[k])) = 0

(***************************************************************************)
(* C5: a text that yields no interval makes the parser fail with           *)
(* NoRecordsFound instead of returning an empty frame; the analysis fails  *)
(* with that error, and no report is written when the source, or either of *)
(* the two sources of a comparison, yields no interval.                    *)
(***************************************************************************)
C5_NoRecordsFound ==
    /\ \A k \in Sources :
            Scanned(k) /\ YieldsNothing(k) =>
                pc = "raised" /\ error = NoRecordsFound /\ cur = k /\ df[k] = None
    /\ \A k \in Sources : df[k] # None => df[k] # <<>>
    /\ pc = "raised" => reports = <<>> /\ result = None
    /\ error # NoError => pc = "raised"
    /\ reports # <<>> => \A k \in Sources : Scanned(k) /\ df[k] # None /\ ~YieldsNothing(k)

\* a comparison failed on its second PDF, after the first one was parsed and
\* aggregated, and wrote nothing
C5_Witness ==
    /\ mode = "compare"
    /\ pc = "raised"
    /\ cur = 2
    /\ df[1] # None /\ summary[1] # None
    /\ error = NoRecordsFound
    /\ reports = <<>>

(***************************************************************************)
(* Sums over a frame or a table (used to state the properties of the       *)
(* aggregator).                                                            *)
(***************************************************************************)
\* the sum of column f over the first n rows
RECURSIVE SumTo(_, _, _)
SumTo(rows, f, n) == IF n = 0 THEN Zero ELSE RatAdd(SumTo(rows, f, n - 1), rows[n][f])

\* the sum of the hours of the intervals of a frame whose index is in S
RECURSIVE HoursOver(_, _)
HoursOver(frame, S) ==
    IF S = {} THEN Zero
    ELSE LET i == CHOOSE i \in S : TRUE
         IN  RatAdd(frame[i].hours, HoursOver(frame, S \ {i}))

\* the employees whose statistics were computed
Aggregated == {k \in {1, 2} : summary[k] # None}

C7_OneRowPerMonth ==
    \A k \in Aggregated :
        LET rows == monthly_df[k]
            months == {<<df[k][i].date[1], df[k][i].date[2]>> : i \in DOMAIN df[k]}
        IN  /\ {<<rows[i].year, rows[i].month>> : i \in DOMAIN rows} = months
            /\ Len(rows) = Cardinality(months)
            /\ \A i \in 1..(Len(rows) - 1) :
                    \/ rows[i].year < rows[i + 1].year
                    \/ rows[i].year = rows[i + 1].year /\ rows[i].month < rows[i + 1].month
            /\ summary[k].monthly_count = Len(rows)

\* a table of two months of two years, from intervals given latest first
C7_Witness ==
    /\ 1 \in Aggregated
    /\ Len(df[1]) = 2
    /\ DateLess(df[1][2].date, df[1][1].date)
    /\ Len(monthly_df[1]) = 2
    /\ monthly_df[1][1].year < monthly_df[1][2].year

\* the length of a month in the Gregorian calendar
GregorianDays(year, month) ==
    CASE month \in {1, 3, 5, 7, 8, 10, 12} -> 31
      [] month \in {4, 6, 9, 11} -> 30
      [] OTHER -> IF year % 400 = 0 \/ (year % 4 = 0 /\ year % 100 # 0) THEN 29 ELSE 28

\* two shifts 5:30-13:30 on 2025-01-02 and 2025-01-09, 20 weekly hours
JanuaryScenario(k) ==
    /\ Len(df[k]) = 2
    /\ df[k][1].date = <<2025, 1, 2>> /\ df[k][2].date = <<2025, 1, 9>>
    /\ \A i \in 1..2 :
            /\ df[k][i].start.hour = 5 /\ df[k][i].start.minute = 30
            /\ df[k][i].end.hour = 13 /\ df[k][i].end.minute = 30
    /\ weekly_hours[k] = [num |-> 20, den |-> 1]

(***************************************************************************)
(* C8: in each month row hours_worked is the sum of the hours of the       *)
(* intervals anchored to a date of that month, days_worked the number of   *)
(* distinct anchoring dates (at most days_in_month), days_in_month the     *)
(* length of the month in the Gregorian calendar, theoretical_hours        *)
(* weekly_hours * days_in_month / 7, overtime hours_worked -               *)
(* theoretical_hours, avg_hours_per_day hours_worked / days_worked. Two    *)
(* shifts 5:30-13:30 on 2025-01-02 and 2025-01-09 with 20 weekly hours     *)
(* give 31 days, 20*31/7 theoretical hours, 16 hours, 2 days, 8 a day.     *)
(***************************************************************************)
C8_MonthRow ==
    \A k \in Aggregated :
        /\ \A i \in DOMAIN monthly_df[k] :
            LET row == monthly_df[k][i]
                in == {j \in DOMAIN df[k] :
                          df[k][j].date[1] = row.year /\ df[k][j].date[2] = row.month}
            IN  /\ row.hours_worked = HoursOver(df[k], in)
                /\ row.days_worked = Cardinality({df[k][j].date : j \in in})
                /\ row.days_worked >= 1
                /\ row.days_worked <= row.days_in_month
                /\ row.days_in_month = GregorianDays(row.year, row.month)
                /\ RatMul(row.theoretical_hours, [num |-> 7, den |-> 1])
                      = RatMul(weekly_hours[k], [num |-> row.days_in_month, den |-> 1])
                /\ RatAdd(row.overtime, row.theoretical_hours) = row.hours_worked
                /\ RatMul(row.avg_hours_per_day, [num |-> row.days_worked, den |-> 1])
                      = row.hours_worked
        /\ JanuaryScenario(k) =>
            /\ Len(monthly_df[k]) = 1
            /\ monthly_df[k][1].year = 2025 /\ monthly_df[k][1].month = 1
            /\ monthly_df[k][1].days_in_month = 31
            /\ monthly_df[k][1].theoretical_hours = [num |-> 620, den |-> 7]
            /\ monthly_df[k][1].hours_worked = [num |-> 16, den |-> 1]
            /\ monthly_df[k][1].overtime = [num |-> -508, den |-> 7]
            /\ monthly_df[k][1].days_worked = 2
            /\ monthly_df[k][1].avg_hours_per_day = [num |-> 8, den |-> 1]

\* the January scenario was aggregated
C8_Witness == 1 \in Aggregated /\ JanuaryScenario(1)

\* the month labels of the monthly table of employee k
LabelsOf(k) == {monthly_df[k][i].month_label : i \in DOMAIN monthly_df[k]}

\* column f of employee k in the month of a label, 0 without data in that month
Own(k, label, f) ==
    IF label \in LabelsOf(k)
    THEN monthly_df[k][CHOOSE i \in DOMAIN monthly_df[k] :
                            monthly_df[k][i].month_label = label][f]
    ELSE [num |-> 0, den |-> 1]

January2025 == <<"0", "1", "/", "2", "0", "2", "5">>

\* the first employee has 10 hours in 01/2025, the second no data in that month
JanuaryOnOneSide ==
    /\ January2025 \in LabelsOf(1)
    /\ Own(1, January2025, "hours_worked") = [num |-> 10, den |-> 1]
    /\ January2025 \notin LabelsOf(2)

(***************************************************************************)
(* C9: the labels of the comparison merge are the union of the month       *)
(* labels of the two monthly tables, each label once; for every label the  *)
(* view gives each employee's own hours_worked and overtime of that month, *)
(* and 0 for an employee without data in that month. With 10 hours in      *)
(* 01/2025 for the first employee and no January data for the second, the  *)
(* label is there once with 10 hours and 0 hours.                          *)
(***************************************************************************)
C9_ComparisonMerge ==
    mode = "compare" /\ pc = "done" =>
        LET rep == reports[result[1]]
            labels == rep.hours.labels
        IN  /\ {labels[i] : i \in DOMAIN labels} = LabelsOf(1) \cup LabelsOf(2)
            /\ Len(labels) = Cardinality(LabelsOf(1) \cup LabelsOf(2))
            /\ rep.overtime.labels = labels
            /\ Len(rep.table) = Len(labels)
            /\ \A i \in DOMAIN labels :
                    /\ rep.hours.y1[i] = Own(1, labels[i], "hours_worked")
                    /\ rep.hours.y2[i] = Own(2, labels[i], "hours_worked")
                    /\ rep.overtime.y1[i] = Own(1, labels[i], "overtime")
                    /\ rep.overtime.y2[i] = Own(2, labels[i], "overtime")
                    /\ rep.table[i] = <<labels[i],
                                        Format2f(Own(1, labels[i], "hours_worked")),
                                        Format2f(Own(1, labels[i], "overtime")),
                                        Format2f(Own(2, labels[i], "hours_worked")),
                                        Format2f(Own(2, labels[i], "overtime"))>>
            /\ JanuaryOnOneSide =>
                    /\ Cardinality({i \in DOMAIN labels : labels[i] = January2025}) = 1
                    /\ \A i \in DOMAIN labels : labels[i] = January2025 =>
                            /\ rep.hours.y1[i] = [num |-> 10, den |-> 1]
                            /\ rep.hours.y2[i] = [num |-> 0, den |-> 1]
                            /\ rep.table[i][2] = 1000
                            /\ rep.table[i][4] = 0

\* a comparison was written where only the first employee has data in 01/2025 and
\* only the second has data in another month
C9_Witness ==
    /\ mode = "compare"
    /\ pc = "done"
    /\ JanuaryOnOneSide
    /\ LabelsOf(2) \ LabelsOf(1) # {}

\* the characters of [A-Za-z0-9_-]
SafeChars == AsciiLetters \cup AsciiDigits \cup {"_", "-"}

(***************************************************************************)
(* C10: in a comparison, whatever the two employee names, the part of the  *)
(* file name Confronto_<slugA>_vs_<slugB>.pdf that comes from the names    *)
(* holds no character outside [A-Za-z0-9_-], and an empty or               *)
(* whitespace-only name becomes the placeholder dipendente.                *)
(***************************************************************************)
C10_ComparisonFilenameIsSafe ==
    mode = "compare" /\ pc = "done" =>
        LET f == result[1]
            n == Len(f)
            blank(k) == \A i \in DOMAIN employee_name[k] : employee_name[k][i] = " "
        IN  /\ SubSeq(f, 1, 10) = <<"C", "o", "n", "f", "r", "o", "n", "t", "o", "_">>
            /\ SubSeq(f, n - 3, n) = <<".", "p", "d", "f">>
            /\ \A i \in 11..(n - 4) : f[i] \in SafeChars
            /\ blank(1) => SubSeq(f, 11, 24) = Dipendente \o <<"_", "v", "s", "_">>
            /\ blank(2) => SubSeq(f, n - 17, n - 4) = <<"_", "v", "s", "_">> \o Dipendente

(***************************************************************************)
(* C11: in single mode, whatever the employee name, the file name          *)
(* Report_<name>_<period>.pdf holds, apart from its final .pdf, only       *)
(* characters of [A-Za-z0-9_-]: no apostrophe, punctuation, space, "/" or  *)
(* "." of the name or of the period label survives, an empty or            *)
(* whitespace-only name becomes the placeholder dipendente, and the result *)
(* is the plain file name the caller gets back.                            *)
(***************************************************************************)
C11_ReportFilenameIsSafe ==
    mode = "single" /\ pc = "done" =>
        LET f == result[1]
            n == Len(f)
            name == employee_name[1]
        IN  /\ n >= 11
            /\ SubSeq(f, 1, 7) = <<"R", "e", "p", "o", "r", "t", "_">>
            /\ SubSeq(f, n - 3, n) = <<".", "p", "d", "f">>
            /\ \A i \in 1..(n - 4) : f[i] \in SafeChars
            /\ (\A i \in DOMAIN name : IsSpace(name[i])) =>
                    SubSeq(f, 8, 18) = Dipendente \o <<"_">>
            /\ DOMAIN reports = {f}

\* a report was written for a name that holds a character outside [A-Za-z0-9_-]
\* and for a period label with its spaces and slashes
C11_Witness ==
    /\ mode = "single"
    /\ pc = "done"
    /\ \E i \in DOMAIN employee_name[1] :
            employee_name[1][i] \in {"'", "/", ".", " ", "U+00E9"}
    /\ \E i \in DOMAIN summary[1].period_label : summary[1].period_label[i] = "/"
    /\ result[1] \in DOMAIN reports

\* the outcome of parsing and aggregating what request r itself uploaded for
\* employee k
OwnAnalysis(r, k) ==
    AnalyzeInput(handler[r].form[k].pdf_file.content, handler[r].weekly_hours[k])

(***************************************************************************)
(* C12: with several requests served at the same time, in every            *)
(* interleaving the monthly table and the summary of a request, the        *)
(* summary shown in its view and a failure of its parsing or aggregation   *)
(* come from the PDF or PDFs that this request uploaded, also when two     *)
(* requests upload files of the same name: no request reads input that     *)
(* another request saved.                                                  *)
(***************************************************************************)
C12_OwnInputOnly ==
    \A r \in DOMAIN handler :
        LET h == handler[r]
        IN  /\ \A k \in 1..Employees(h.route) :
                    h.summary[k] # None =>
                        /\ h.summary[k] = OwnAnalysis(r, k).summary
                        /\ h.monthly_df[k] = OwnAnalysis(r, k).monthly_df
            /\ (h.pc = "done" /\ h.view.summary # None) =>
                    \A k \in 1..Employees(h.route) :
                        h.view.summary[k] = OwnAnalysis(r, k).summary
            /\ (h.raised # None /\ h.raised # OSError) =>
                    \E k \in 1..Employees(h.route) : OwnAnalysis(r, k).raised = h.raised

(***************************************************************************)
(* C13: in both handlers no failure of the analysis call leaves the        *)
(* handler: each one ends in the form page with an error message. The      *)
(* parser's NoRecordsFound is shown as an expected error together with its *)
(* message, every other failure as an unexpected error, and the result     *)
(* page with the name of the report to download is rendered only when the  *)
(* analysis returned, the report being written.                            *)
(***************************************************************************)
C13_FailuresClassified ==
    \A r \in DOMAIN handler :
        LET h == handler[r]
        IN  /\ h.pc # "propagated"
            /\ (h.pc = "done" /\ h.raised # None) =>
                    /\ h.view.template = FormTemplate(h.route)
                    /\ h.view.report_filename = None
                    /\ IF h.raised = NoRecordsError
                       THEN /\ h.view.error = AnalysisError(h.route)
                            /\ h.view.e = NoRecordsFound
                       ELSE h.view.error = UnexpectedError(h.route)
            /\ (h.pc = "done" /\ h.view.template = ResultTemplate(h.route)) =>
                    /\ h.raised = None
                    /\ h.view.error = None
                    /\ h.view.report_filename \in DOMAIN reports

(***************************************************************************)
(* C14: the analysis is only ever called with weekly hours greater than    *)
(* zero: a request whose weekly hours are zero or negative is answered     *)
(* with an error view by the checks on the form and gets no further.       *)
(***************************************************************************)
C14_WeeklyHoursPositive ==
    \A r \in DOMAIN handler :
        LET h == handler[r]
        IN  (h.pc \in {"analyze", "report"} \/ h.raised # None \/ h.summary[1] # None) =>
                \A k \in 1..Employees(h.route) : h.weekly_hours[k].num > 0

\* the date token names a day of the Gregorian calendar
RealDate(tok) ==
    /\ tok.y >= 1
    /\ tok.m \in 1..12
    /\ tok.d \in 1..GregorianDays(tok.y, tok.m)

(***************************************************************************)
(* C15: a line whose date token has the digit pattern of a date but names  *)
(* no real date (31/02/2025, 00/13/2025) unsets the date cursor and adds   *)
(* no interval; every line without a date token that follows it, its       *)
(* time-pair lines included, adds no interval and leaves the cursor unset, *)
(* until the next valid date line; and an interval that is added carries   *)
(* the date of the most recent date line, never an earlier one.            *)
(***************************************************************************)
C15_InvalidDateUnsetsCursor ==
    [][LineStep =>
        LET text == pdf[cur]
            line == text[idx]
            last == LastDateLine(text, idx)
        IN  /\ (HasDate(line) /\ ~RealDate(DateSearch(line))) =>
                    current_date' = None /\ records' = records
            /\ (~HasDate(line) /\ last > 0 /\ ~RealDate(DateSearch(text[last]))) =>
                    current_date' = None /\ records' = records
            /\ records' # records =>
                    /\ last > 0
                    /\ RealDate(DateSearch(text[last]))
                    /\ records'[Len(records')].date = AnchorDate(text, idx)]_vars

\* a valid date line, then a date line that names no real date, then a time-pair
\* line were read, and no interval was recorded
C15_Witness ==
    /\ pc = "parse"
    /\ idx = 4
    /\ Len(pdf[cur]) >= 3
    /\ HasDate(pdf[cur][1]) /\ RealDate(DateSearch(pdf[cur][1]))
    /\ HasDate(pdf[cur][2]) /\ ~RealDate(DateSearch(pdf[cur][2]))
    /\ ~HasDate(pdf[cur][3]) /\ ValidTimes(pdf[cur][3])
    /\ current_date = None
    /\ records = <<>>

\* the (year, month) of a label of the comparison, read from the monthly tables
MonthOfLabel(label) ==
    LET rows == UNION {{monthly_df[k][i] : i \in DOMAIN monthly_df[k]} : k \in 1..2}
        row == CHOOSE r \in rows : r.month_label = label
    IN  <<row.year, row.month>>

\* year first, then month
Chronological(a, b) == a[1] < b[1] \/ (a[1] = b[1] /\ a[2] < b[2])

(***************************************************************************)
(* C16: the label sequence of the comparison merge lists the months in     *)
(* chronological order, year first and then month, which is the order of   *)
(* each employee's own monthly table, also when the data spans two         *)
(* calendar years: 12/2024 comes before 01/2025.                           *)
(***************************************************************************)
C16_MergeLabelsChronological ==
    mode = "compare" /\ pc = "done" =>
        LET labels == reports[result[1]].hours.labels
        IN  /\ \A i, j \in DOMAIN labels :
                    i < j => Chronological(MonthOfLabel(labels[i]), MonthOfLabel(labels[j]))
            /\ \A k \in 1..2 : \A a, b \in DOMAIN monthly_df[k] :
                    a < b => \E i, j \in DOMAIN labels :
                                /\ i < j
                                /\ labels[i] = monthly_df[k][a].month_label
                                /\ labels[j] = monthly_df[k][b].month_label

====
